---------------------------- MODULE Spec2Model ----------------------------
(***************************************************************************)
(* Model of testutil/cockroachdb-transformer/main.go: a configuration      *)
(* transformer that decodes API_CONFIG, copies stdin to stdout, prints a   *)
(* document separator, defaults spec.replicas from REPLICAS (or 1) and     *)
(* executes a fixed template against the decoded object.                   *)
(*                                                                         *)
(* Byte streams are sequences of one-character strings.  The static text   *)
(* between two template actions is one opaque item ("text0" ... "text14"). *)
(***************************************************************************)
EXTENDS Integers, Sequences, FiniteSets

VARIABLES
    config,    \* the value of the API_CONFIG environment variable (a YAML document)
    environ,   \* the REPLICAS environment variable: [set, val]
    stdin,     \* the upstream byte stream
    stdinPos,  \* number of bytes of stdin consumed so far
    stdout,    \* bytes written to os.Stdout so far
    stderr,    \* diagnostics written to os.Stderr so far
    api,       \* the decoded *API object (main.go:50)
    r,         \* the local r of main.go:63: [set, val]; set is FALSE before line 63 ran
    nodeIdx,   \* number of template nodes already executed by t.Execute
    pc,        \* position of main: decode, copy, println, default, execute, exit
    exitCode   \* process exit status once pc = "exit"; -1 while running

vars == <<config, environ, stdin, stdinPos, stdout, stderr, api, r, nodeIdx, pc, exitCode>>

---------------------------------------------------------------------------
(* Bounds of the model *)

MaxUpstreamLen == 2

MaxEnvLen == 2

MaxReplicas == 1

---------------------------------------------------------------------------
(* Strings and numbers *)

Digits == {"0", "1", "2", "3", "4", "5", "6", "7", "8", "9"}

DigitChars == <<"0", "1", "2", "3", "4", "5", "6", "7", "8", "9">>

DigitValue(c) == CHOOSE d \in 0..9 : DigitChars[d + 1] = c

SeqsUpTo(S, n) == UNION {[1..k -> S] : k \in 0..n}

RECURSIVE ParseDigits(_, _)
\* the accumulation loop of strconv.Atoi's fast path: n = n*10 + (ch - '0')
ParseDigits(s, n) ==
    IF s = <<>> THEN n ELSE ParseDigits(Tail(s), n * 10 + DigitValue(Head(s)))

\* a mutant of Atoi: the leading sign is skipped but never applied
AtoiDropsSign(s) ==
    LET signed == Len(s) > 0 /\ s[1] \in {"-", "+"}
        body == IF signed THEN Tail(s) ELSE s
    IN  IF body = <<>> \/ \E i \in 1..Len(body) : body[i] \notin Digits
        THEN [ok |-> FALSE, val |-> 0]
        ELSE [ok |-> TRUE, val |-> ParseDigits(body, 0)]

\* strconv.Atoi: an optional '+' or '-', then one or more decimal digits.
\* Strings of at most MaxEnvLen + 1 characters never reach the int range limit.
Atoi(s) ==
    LET signed == Len(s) > 0 /\ s[1] \in {"-", "+"}
        body == IF signed THEN Tail(s) ELSE s
    IN  IF body = <<>> \/ \E i \in 1..Len(body) : body[i] \notin Digits
        THEN [ok |-> FALSE, val |-> 0]
        ELSE [ok |-> TRUE,
              val |-> IF s[1] = "-" THEN 0 - ParseDigits(body, 0)
                                    ELSE ParseDigits(body, 0)]

RECURSIVE FormatNat(_)
FormatNat(n) ==
    IF n < 10 THEN <<DigitChars[n + 1]>>
    ELSE FormatNat(n \div 10) \o <<DigitChars[(n % 10) + 1]>>

\* how text/template prints an int: decimal, '-' for negative numbers
Itoa(n) == IF n < 0 THEN <<"-">> \o FormatNat(0 - n) ELSE FormatNat(n)

---------------------------------------------------------------------------
(* The object decoded from API_CONFIG *)

Nil == [nil |-> TRUE, val |-> 0]

Ptr(n) == [nil |-> FALSE, val |-> n]

\* api := &API{}
ZeroAPI == [Metadata |-> [Name |-> <<>>], Spec |-> [Replicas |-> Nil]]

Names == {<<>>, <<"d", "b">>}

\* the spec.replicas node of the document: absent, null, an integer, or a
\* scalar that is not an integer (for instance  replicas: abc)
ReplicasNodes ==
    {[tag |-> "absent", val |-> 0], [tag |-> "null", val |-> 0], [tag |-> "str", val |-> 0]}
    \cup {[tag |-> "int", val |-> n] : n \in (0 - 1)..MaxReplicas}

\* API_CONFIG values, as the node tree the YAML parser builds from the text:
\*   malformed  text that is not YAML, e.g.  metadata: [
\*   empty      the empty text (API_CONFIG unset): a stream with no document
\*   mapping    e.g.  {metadata: {name: db}, spec: {replicas: 1}, other: x}
\*              name is "" when metadata.name is absent; replicas is the
\*              spec.replicas node; fields the API type does not know are
\*              skipped by the decoder (KnownFields(false)) and not kept here
Documents ==
    {[kind |-> "malformed", name |-> <<>>, replicas |-> [tag |-> "absent", val |-> 0]],
     [kind |-> "empty", name |-> <<>>, replicas |-> [tag |-> "absent", val |-> 0]]}
    \cup {[kind |-> "mapping", name |-> n, replicas |-> rn] :
            n \in Names, rn \in ReplicasNodes}

\* a mutant of Decode: the decode error is dropped
DecodeIgnoresError(doc) ==
    [err |-> FALSE,
     api |-> IF doc.kind = "mapping"
             THEN [Metadata |-> [Name |-> doc.name],
                   Spec |-> [Replicas |-> IF doc.replicas.tag = "int"
                                          THEN Ptr(doc.replicas.val) ELSE Nil]]
             ELSE ZeroAPI]

\* yaml.NewDecoder(...).Decode(api) with KnownFields(false): a syntax error,
\* io.EOF for a stream without a document, or a type error for a replicas
\* scalar that is not an integer; unknown fields are skipped; an absent or
\* null replicas leaves the pointer nil
Decode(doc) ==
    [err |-> doc.kind # "mapping" \/ doc.replicas.tag = "str",
     api |-> IF doc.kind = "mapping"
             THEN [Metadata |-> [Name |-> doc.name],
                   Spec |-> [Replicas |-> IF doc.replicas.tag = "int"
                                          THEN Ptr(doc.replicas.val) ELSE Nil]]
             ELSE ZeroAPI]

---------------------------------------------------------------------------
(* The environment *)

EnvChars == {"0", "3", "-", "a"}

Environs ==
    {[set |-> FALSE, val |-> <<>>]}
    \cup {[set |-> TRUE, val |-> s] : s \in SeqsUpTo(EnvChars, MaxEnvLen)}

\* os.Getenv: the value, or "" when the variable is not set
Getenv(e) == IF e.set THEN e.val ELSE <<>>

---------------------------------------------------------------------------
(* Defaulting of the Replicas field *)

\* a mutant of NeedsEnvDefault: the explicit value no longer wins
NeedsEnvDefaultIgnoresExplicit(rv, replicas) == rv # <<>>

\* a mutant of NeedsEnvDefault: the environment default is never used
NeedsEnvDefaultNever(rv, replicas) == FALSE

\* r != "" && api.Spec.Replicas == nil
NeedsEnvDefault(rv, replicas) == rv # <<>> /\ replicas.nil

\* a mutant of ApplyFallback: falls back to 0
ApplyFallbackZero(replicas) == IF replicas.nil THEN Ptr(0) ELSE replicas

\* a mutant of ApplyFallback: the fallback is not applied
ApplyFallbackSkipped(replicas) == replicas

\* if api.Spec.Replicas == nil { r := 1; api.Spec.Replicas = &r }
ApplyFallback(replicas) == IF replicas.nil THEN Ptr(1) ELSE replicas

---------------------------------------------------------------------------
(* The output *)

UpstreamBytes == {"A", "\n"}

\* fmt.Println("\n---")
Separator == <<"\n", "-", "-", "-", "\n">>

TextNode(i) == [kind |-> "text", id |-> i]

NameNode == [kind |-> "name", id |-> 0]

ReplicasNode == [kind |-> "replicas", id |-> 0]

\* the parsed template t: static text alternating with the actions
\* {{ .Metadata.Name }} and {{ .Spec.Replicas }}
TemplateNodes ==
    << TextNode(0), NameNode, TextNode(1), NameNode, TextNode(2), NameNode,
       TextNode(3), NameNode, TextNode(4), NameNode, TextNode(5), NameNode,
       TextNode(6), NameNode, TextNode(7), NameNode, TextNode(8), NameNode,
       TextNode(9), NameNode, TextNode(10), NameNode, TextNode(11), ReplicasNode,
       TextNode(12), NameNode, TextNode(13), NameNode, TextNode(14) >>

TextItems ==
    << "text0", "text1", "text2", "text3", "text4", "text5", "text6", "text7",
       "text8", "text9", "text10", "text11", "text12", "text13", "text14" >>

\* what executing one template node writes; a nil *int prints as <nil>
NodeOutput(node, a) ==
    CASE node.kind = "text" -> <<TextItems[node.id + 1]>>
      [] node.kind = "name" -> a.Metadata.Name
      [] node.kind = "replicas" ->
            IF a.Spec.Replicas.nil THEN <<"<", "n", "i", "l", ">">>
            ELSE Itoa(a.Spec.Replicas.val)

RECURSIVE RenderFrom(_, _)
RenderFrom(i, a) ==
    IF i > Len(TemplateNodes) THEN <<>>
    ELSE NodeOutput(TemplateNodes[i], a) \o RenderFrom(i + 1, a)

\* the whole output of t.Execute(os.Stdout, api)
Render(a) == RenderFrom(1, a)

---------------------------------------------------------------------------
(* The run of main *)

Init ==
    /\ config \in Documents
    /\ environ \in Environs
    /\ stdin \in SeqsUpTo(UpstreamBytes, MaxUpstreamLen)
    /\ stdinPos = 0
    /\ stdout = <<>>
    /\ stderr = <<>>
    /\ api = ZeroAPI
    /\ r = [set |-> FALSE, val |-> <<>>]
    /\ nodeIdx = 0
    /\ pc = "decode"
    /\ exitCode = 0 - 1

\* main.go:48-54: decode the configuration; on error report it and exit(1)
DecodeConfig ==
    /\ pc = "decode"
    /\ LET d == Decode(config) IN
         IF d.err
         THEN /\ stderr' = Append(stderr, "ParseError")
              /\ pc' = "exit"
              /\ exitCode' = 1
              /\ api' = d.api
         ELSE /\ api' = d.api
              /\ pc' = "copy"
              /\ UNCHANGED <<stderr, exitCode>>
    /\ UNCHANGED <<config, environ, stdin, stdinPos, stdout, r, nodeIdx>>

\* main.go:57, io.Copy: one round of the copy loop reads n > 0 bytes and writes them
CopyChunk ==
    /\ pc = "copy"
    /\ \E n \in 1..(Len(stdin) - stdinPos) :
         /\ stdout' = stdout \o SubSeq(stdin, stdinPos + 1, stdinPos + n)
         /\ stdinPos' = stdinPos + n
    /\ UNCHANGED <<config, environ, stdin, stderr, api, r, nodeIdx, pc, exitCode>>

\* main.go:57, io.Copy: the read returns io.EOF, Copy returns nil
CopyEOF ==
    /\ pc = "copy"
    /\ stdinPos = Len(stdin)
    /\ pc' = "println"
    /\ UNCHANGED <<config, environ, stdin, stdinPos, stdout, stderr, api, r, nodeIdx, exitCode>>

\* a mutant of CopyReadError: the copy error is ignored and main goes on
CopyReadErrorIgnored ==
    /\ pc = "copy"
    /\ \E n \in 0..(Len(stdin) - stdinPos) :
         /\ stdout' = stdout \o SubSeq(stdin, stdinPos + 1, stdinPos + n)
         /\ stdinPos' = stdinPos + n
    /\ stderr' = Append(stderr, "StreamCopyError")
    /\ pc' = "println"
    /\ UNCHANGED <<config, environ, stdin, api, r, nodeIdx, exitCode>>

\* main.go:57-59, io.Copy: a read fails (possibly after yielding n bytes,
\* which are written first); Copy returns the error and main panics
CopyReadError ==
    /\ pc = "copy"
    /\ \E n \in 0..(Len(stdin) - stdinPos) :
         /\ stdout' = stdout \o SubSeq(stdin, stdinPos + 1, stdinPos + n)
         /\ stdinPos' = stdinPos + n
    /\ stderr' = Append(stderr, "StreamCopyError")
    /\ pc' = "exit"
    /\ exitCode' = 2
    /\ UNCHANGED <<config, environ, stdin, api, r, nodeIdx>>

\* main.go:57-59, io.Copy: n > 0 bytes were read and the write of them fails
\* after w < n bytes; Copy returns the error and main panics
CopyWriteError ==
    /\ pc = "copy"
    /\ \E n \in 1..(Len(stdin) - stdinPos) : \E w \in 0..(n - 1) :
         /\ stdout' = stdout \o SubSeq(stdin, stdinPos + 1, stdinPos + w)
         /\ stdinPos' = stdinPos + n
    /\ stderr' = Append(stderr, "StreamCopyError")
    /\ pc' = "exit"
    /\ exitCode' = 2
    /\ UNCHANGED <<config, environ, stdin, api, r, nodeIdx>>

\* main.go:60: the separator is printed.  The result of Println is discarded:
\* the write puts w bytes of the separator on os.Stdout (all of them, or
\* fewer when the write fails) and main goes on to line 63 either way
PrintSeparator ==
    /\ pc = "println"
    /\ \E w \in 0..Len(Separator) : stdout' = stdout \o SubSeq(Separator, 1, w)
    /\ pc' = "default"
    /\ UNCHANGED <<config, environ, stdin, stdinPos, stderr, api, r, nodeIdx, exitCode>>

\* main.go:63-75: read REPLICAS and default the Replicas field
DefaultReplicas ==
    /\ pc = "default"
    /\ LET rv == Getenv(environ) IN
         /\ r' = [set |-> TRUE, val |-> rv]
         /\ IF NeedsEnvDefault(rv, api.Spec.Replicas)
            THEN LET a == Atoi(rv) IN
                   IF ~a.ok
                   THEN /\ stderr' = Append(stderr, "InvalidDefaultError")
                        /\ pc' = "exit"
                        /\ exitCode' = 1
                        /\ api' = api
                   ELSE /\ api' = [api EXCEPT !.Spec.Replicas = ApplyFallback(Ptr(a.val))]
                        /\ pc' = "execute"
                        /\ UNCHANGED <<stderr, exitCode>>
            ELSE /\ api' = [api EXCEPT !.Spec.Replicas = ApplyFallback(api.Spec.Replicas)]
                 /\ pc' = "execute"
                 /\ UNCHANGED <<stderr, exitCode>>
    /\ UNCHANGED <<config, environ, stdin, stdinPos, stdout, nodeIdx>>

\* main.go:82, t.Execute: the next template node is written to os.Stdout
ExecuteNode ==
    /\ pc = "execute"
    /\ nodeIdx < Len(TemplateNodes)
    /\ stdout' = stdout \o NodeOutput(TemplateNodes[nodeIdx + 1], api)
    /\ nodeIdx' = nodeIdx + 1
    /\ UNCHANGED <<config, environ, stdin, stdinPos, stderr, api, r, pc, exitCode>>

\* main.go:82-85, t.Execute: writing a node fails after w of its bytes (a
\* static text is one item: none of it); the error is reported, exit(1)
ExecuteError ==
    /\ pc = "execute"
    /\ nodeIdx < Len(TemplateNodes)
    /\ LET out == NodeOutput(TemplateNodes[nodeIdx + 1], api) IN
         \E w \in 0..(IF out = <<>> THEN 0 ELSE Len(out) - 1) :
            stdout' = stdout \o SubSeq(out, 1, w)
    /\ stderr' = Append(stderr, "RenderError")
    /\ pc' = "exit"
    /\ exitCode' = 1
    /\ UNCHANGED <<config, environ, stdin, stdinPos, api, r, nodeIdx>>

\* main.go:86: Execute returned nil, main returns
Finish ==
    /\ pc = "execute"
    /\ nodeIdx = Len(TemplateNodes)
    /\ pc' = "exit"
    /\ exitCode' = 0
    /\ UNCHANGED <<config, environ, stdin, stdinPos, stdout, stderr, api, r, nodeIdx>>

Next ==
    \/ DecodeConfig
    \/ CopyChunk
    \/ CopyEOF
    \/ CopyReadError
    \/ CopyWriteError
    \/ PrintSeparator
    \/ DefaultReplicas
    \/ ExecuteNode
    \/ ExecuteError
    \/ Finish

Spec == Init /\ [][Next]_vars

---------------------------------------------------------------------------
(* Vocabulary of the properties *)

\* the last diagnostic written to stderr, "none" when there is none
Failure == IF stderr = <<>> THEN "none" ELSE stderr[Len(stderr)]

Succeeded == pc = "exit" /\ exitCode = 0

IsPrefix(s, t) == Len(s) <= Len(t) /\ SubSeq(t, 1, Len(s)) = s

IsSuffix(s, t) == Len(s) <= Len(t) /\ SubSeq(t, Len(t) - Len(s) + 1, Len(t)) = s

\* the document is a mapping that gives spec.replicas a non-negative integer
SpecifiesReplicas ==
    config.kind = "mapping" /\ config.replicas.tag = "int" /\ config.replicas.val >= 0

\* the document is a well-typed mapping without a spec.replicas value
OmitsReplicas == config.kind = "mapping" /\ config.replicas.tag \in {"absent", "null"}

\* decimal numerals, stated independently of Atoi: an optional sign and digits
NumeralBody(s) == IF s # <<>> /\ s[1] \in {"-", "+"} THEN Tail(s) ELSE s

IsNumeral(s) ==
    /\ NumeralBody(s) # <<>>
    /\ \A i \in 1..Len(NumeralBody(s)) : NumeralBody(s)[i] \in Digits

RECURSIVE Magnitude(_)
Magnitude(b) ==
    IF b = <<>> THEN 0
    ELSE DigitValue(b[Len(b)]) + 10 * Magnitude(SubSeq(b, 1, Len(b) - 1))

NumeralValue(s) ==
    IF s[1] = "-" THEN 0 - Magnitude(NumeralBody(s)) ELSE Magnitude(NumeralBody(s))

\* the rendering expected for a name and a replica count
Rendering(name, n) == Render([Metadata |-> [Name |-> name], Spec |-> [Replicas |-> Ptr(n)]])

---------------------------------------------------------------------------
(* Properties *)

\* C1: when the environment default is not an integer and the configuration
\* does not specify spec.replicas, the run fails with InvalidDefaultError
\* and nothing has been written to the output at that moment.
C1_NoOutputOnInvalidDefault ==
    /\ (OmitsReplicas /\ environ.set /\ environ.val # <<>> /\ ~IsNumeral(environ.val) /\ r.set)
          => Failure = "InvalidDefaultError"
    /\ Failure = "InvalidDefaultError" => stdout = <<>>

\* C2: a configuration that specifies spec.replicas = R >= 0 resolves to R
\* whatever the environment default is: no InvalidDefaultError is raised,
\* the field stays R from decoding on, and a successful run renders R.
C2_ExplicitReplicasWins ==
    SpecifiesReplicas =>
        /\ Failure # "InvalidDefaultError"
        /\ pc # "decode" => api.Spec.Replicas = Ptr(config.replicas.val)
        /\ r.set => pc = "execute" \/ Failure \in {"none", "RenderError"}
        /\ Succeeded =>
             /\ IsPrefix(stdin, stdout)
             /\ IsSuffix(Rendering(config.name, config.replicas.val), stdout)

C2_Witness ==
    /\ SpecifiesReplicas /\ config.replicas.val = 0
    /\ environ.set /\ environ.val = <<"a">>
    /\ Succeeded

\* C3: a configuration that omits spec.replicas, with a non-empty
\* environment default that is the numeral of d, resolves to d (zero and
\* negative values included), not to the fallback 1.
C3_EnvDefaultUsed ==
    (OmitsReplicas /\ environ.set /\ environ.val # <<>> /\ IsNumeral(environ.val) /\ r.set) =>
        /\ api.Spec.Replicas = Ptr(NumeralValue(environ.val))
        /\ Failure # "InvalidDefaultError"
        /\ environ.val = <<"-", "3">> => api.Spec.Replicas.val = 0 - 3
        /\ environ.val = <<"0">> => api.Spec.Replicas.val = 0
        /\ Succeeded =>
             /\ IsPrefix(stdin, stdout)
             /\ IsSuffix(Rendering(config.name, NumeralValue(environ.val)), stdout)

C3_Witness ==
    /\ OmitsReplicas
    /\ environ.set /\ environ.val = <<"-", "3">>
    /\ api.Spec.Replicas = Ptr(0 - 3)
    /\ Succeeded

\* C4: a configuration that omits spec.replicas, with the environment
\* default absent or empty, resolves successfully to replicas = 1.
C4_FallbackIsOne ==
    (OmitsReplicas /\ (~environ.set \/ environ.val = <<>>) /\ r.set) =>
        /\ api.Spec.Replicas = Ptr(1)
        /\ pc = "execute" \/ Failure \in {"none", "RenderError"}
        /\ Succeeded =>
             /\ IsPrefix(stdin, stdout)
             /\ IsSuffix(Rendering(config.name, 1), stdout)

C4_Witness ==
    /\ OmitsReplicas /\ config.replicas.tag = "absent"
    /\ ~environ.set
    /\ pc = "execute" /\ nodeIdx = 0
    /\ api.Spec.Replicas = Ptr(1)

\* C5: a syntactically invalid configuration document makes the run fail
\* with ParseError before anything is read from the upstream stream or
\* written to the output.
C5_ParseErrorBeforeOutput ==
    config.kind = "malformed" =>
        /\ stdout = <<>>
        /\ stdinPos = 0
        /\ pc # "decode" => (pc = "exit" /\ exitCode = 1 /\ Failure = "ParseError")

C5_Witness ==
    /\ config.kind = "malformed"
    /\ pc = "exit" /\ Failure = "ParseError"
    /\ stdin # <<>>
    /\ environ.set /\ environ.val = <<"a">>

\* C6: the output of a successful run is exactly the upstream input, then
\* the separator "\n---\n", then the rendering of the template against the
\* resolved config.
C6_OutputIsUpstreamSeparatorTemplate ==
    Succeeded => stdout = stdin \o <<"\n", "-", "-", "-", "\n">> \o Render(api)

\* C7: once relaying the upstream stream has failed the run is over and
\* not successful, the output holds upstream bytes only (no separator, no
\* template), and nothing is written afterwards.
C7_NoTemplateAfterCopyFailure ==
    /\ [](Failure = "StreamCopyError" =>
            /\ pc = "exit" /\ exitCode # 0
            /\ nodeIdx = 0
            /\ Len(stdout) <= stdinPos /\ IsPrefix(stdout, stdin))
    /\ [][Failure = "StreamCopyError" => (stdout' = stdout /\ pc' = pc)]_vars

C7_Witness ==
    /\ Failure = "StreamCopyError"
    /\ pc = "exit"
    /\ stdout # <<>> /\ Len(stdout) < Len(stdin)

\* C8 as stated: whenever template rendering begins, replicas >= 0.
C8_ReplicasNonNegative ==
    pc = "execute" => api.Spec.Replicas.val >= 0

\* C8 as amended: whenever template rendering begins, replicas is an
\* integer that is negative exactly when the source that supplied it is: an
\* explicit negative spec.replicas or, with spec.replicas omitted, an
\* environment default that is a negative numeral.
C8_ReplicasNegativeOnlyFromSource ==
    pc = "execute" =>
        /\ ~api.Spec.Replicas.nil
        /\ api.Spec.Replicas.val < 0 <=>
             \/ config.replicas.tag = "int" /\ config.replicas.val < 0
             \/ /\ OmitsReplicas /\ environ.set
                /\ IsNumeral(environ.val) /\ NumeralValue(environ.val) < 0

C8_Witness ==
    /\ pc = "execute"
    /\ OmitsReplicas /\ environ.set /\ environ.val = <<"-", "3">>
    /\ api.Spec.Replicas.val < 0

\* C9: the Resolver is done before the Composer starts: no byte of the
\* upstream stream is read or written before the environment default has
\* been read and the replicas default resolved, and the config does not
\* change once output has begun.
C9_ResolverBeforeComposer ==
    (stdinPos > 0 \/ stdout # <<>>) =>
        /\ r.set
        /\ ~api.Spec.Replicas.nil \/ Failure = "InvalidDefaultError"

\* C10: whenever template execution starts or is under way, the Replicas
\* field is non-nil, whichever source supplied it.
C10_ReplicasPopulated ==
    (pc = "execute" \/ nodeIdx > 0) => ~api.Spec.Replicas.nil

C10_Witness ==
    /\ pc = "execute" /\ nodeIdx = Len(TemplateNodes)
    /\ OmitsReplicas /\ config.replicas.tag = "null"
    /\ environ.set /\ environ.val = <<>>
    /\ ~api.Spec.Replicas.nil

===========================================================================
